---- MODULE Spec2Model ----
(***************************************************************************)
(* A model of modelme (src/lib/modelme.js): a Model owns a registry of     *)
(* field types and a set of declared Types; Type.field declares Fields;    *)
(* Model.validate coerces and validates one input against one Type.        *)
(*                                                                         *)
(* JavaScript values are records tagged by k.  Primitives are values;      *)
(* objects, arrays and Dates live in a heap (address -> cell) and are      *)
(* denoted by references, so that sharing between the input of validate    *)
(* and the entity it returns is visible.  Addresses are strings that spell *)
(* the access path of the cell ("in", "in.friends", "in.friends[0]").      *)
(* Time is counted in days since the epoch.                                *)
(***************************************************************************)
EXTENDS Integers, Sequences, FiniteSets, TLC

VARIABLES fieldTypes, types, heap, call, ret, mutated

vars == <<fieldTypes, types, heap, call, ret, mutated>>

(***************************************************************************)
(* Bounds of the model.                                                    *)
(***************************************************************************)
\* The most fields the build phase declares over all Types of the Model.
MaxFields == 2

(***************************************************************************)
(* JavaScript values.                                                      *)
(***************************************************************************)
Undef == [k |-> "undefined"]

Null == [k |-> "null"]

NaN == [k |-> "NaN"]

\* The number n + f/10 (f is 0, or 5 for a half).
Num(n, f) == [k |-> "number", n |-> n, f |-> f]

NumInt(n) == Num(n, 0)

Str(s) == [k |-> "string", s |-> s]

Bool(b) == [k |-> "boolean", b |-> b]

\* A function value: its source text and the tree its call returns.
Func(src, returns) == [k |-> "function", src |-> src, returns |-> returns]

Ref(a) == [k |-> "ref", a |-> a]

\* A thrown Error object.
Error(name, message) == [k |-> "error", name |-> name, message |-> message]

ModelMeError(message) == Error("ModelMeError", message)

TypeError == Error("TypeError", "")

SyntaxError == Error("SyntaxError", "")

(***************************************************************************)
(* Trees: objects, arrays and Dates written out by value, as a caller      *)
(* writes a literal.  Alloc lays a tree out in the heap.                   *)
(***************************************************************************)
ObjT(keys, props) == [k |-> "objectT", keys |-> keys, props |-> props]

ArrT(elems) == [k |-> "arrayT", elems |-> elems]

DateT(t) == [k |-> "dateT", t |-> t]

IsTree(v) == v.k \in {"objectT", "arrayT", "dateT"}

EmptyHeap == [a \in {} |-> Null]

PropAddr(a, key) == a \o "." \o key

ElemAddr(a, i) == a \o "[" \o ToString(i - 1) \o "]"

\* The value that denotes tree v once it is laid out at address a.
ValAt(v, a) == IF IsTree(v) THEN Ref(a) ELSE v

RECURSIVE Alloc(_, _)
\* The heap cells of tree v laid out at address a (none for a primitive).
Alloc(v, a) ==
    CASE v.k = "objectT" ->
           LET kids(i) == Alloc(v.props[v.keys[i]], PropAddr(a, v.keys[i]))
               merge[i \in 0..Len(v.keys)] ==
                   IF i = 0 THEN EmptyHeap ELSE kids(i) @@ merge[i - 1]
           IN  (a :> [k |-> "object", keys |-> v.keys,
                      props |-> [key \in DOMAIN v.props |->
                                     ValAt(v.props[key], PropAddr(a, key))]])
               @@ merge[Len(v.keys)]
      [] v.k = "arrayT" ->
           LET kids(i) == Alloc(v.elems[i], ElemAddr(a, i))
               merge[i \in 0..Len(v.elems)] ==
                   IF i = 0 THEN EmptyHeap ELSE kids(i) @@ merge[i - 1]
           IN  (a :> [k |-> "array",
                      elems |-> [i \in 1..Len(v.elems) |->
                                     ValAt(v.elems[i], ElemAddr(a, i))]])
               @@ merge[Len(v.elems)]
      [] v.k = "dateT" -> (a :> [k |-> "date", t |-> v.t])
      [] OTHER -> EmptyHeap

RECURSIVE Deep(_, _)
\* The tree that value v denotes in heap h: what a caller sees by reading
\* through v.
Deep(h, v) ==
    IF v.k # "ref" THEN v
    ELSE LET c == h[v.a]
         IN  CASE c.k = "object" ->
                    ObjT(c.keys, [key \in DOMAIN c.props |-> Deep(h, c.props[key])])
               [] c.k = "array" ->
                    ArrT([i \in 1..Len(c.elems) |-> Deep(h, c.elems[i])])
               [] c.k = "date" -> DateT(c.t)

RECURSIVE Reach(_, _)
\* The addresses of the cells reachable from value v in heap h.
Reach(h, v) ==
    IF v.k # "ref" THEN {}
    ELSE LET c == h[v.a]
         IN  {v.a} \cup
             CASE c.k = "object" ->
                    UNION {Reach(h, c.props[key]) : key \in DOMAIN c.props}
               [] c.k = "array" ->
                    UNION {Reach(h, c.elems[i]) : i \in 1..Len(c.elems)}
               [] OTHER -> {}

IsArray(h, v) == v.k = "ref" /\ h[v.a].k = "array"

IsDate(h, v) == v.k = "ref" /\ h[v.a].k = "date"

IsNullish(v) == v.k \in {"undefined", "null"}

(***************************************************************************)
(* The JavaScript operations the library applies to values.                *)
(***************************************************************************)
\* typeof v
TypeOf(v) ==
    CASE v.k = "undefined" -> "undefined"
      [] v.k \in {"number", "NaN"} -> "number"
      [] v.k = "string" -> "string"
      [] v.k = "boolean" -> "boolean"
      [] v.k = "function" -> "function"
      [] OTHER -> "object"

\* if (v): the truthiness of v.
Truthy(v) ==
    CASE v.k \in {"undefined", "null", "NaN"} -> FALSE
      [] v.k = "number" -> ~(v.n = 0 /\ v.f = 0)
      [] v.k = "string" -> v.s # ""
      [] v.k = "boolean" -> v.b
      [] OTHER -> TRUE

\* String(x) of a number.
NumToString(x) ==
    IF x.f = 0 THEN ToString(x.n)
    ELSE IF x.n >= 0 THEN ToString(x.n) \o "." \o ToString(x.f)
    ELSE "-" \o ToString(-(x.n + 1)) \o "." \o ToString(10 - x.f)

\* The text of a Date (the engine's and the time zone's: one text per time).
DateToString(t) == "Date " \o ToString(t) \o " 00:00:00 GMT+0000 (Coordinated Universal Time)"

RECURSIVE JsToString(_, _)
\* v.toString(), and the string conversion of "..." + v.
JsToString(h, v) ==
    CASE v.k = "undefined" -> "undefined"
      [] v.k = "null" -> "null"
      [] v.k = "NaN" -> "NaN"
      [] v.k = "number" -> NumToString(v)
      [] v.k = "string" -> v.s
      [] v.k = "boolean" -> IF v.b THEN "true" ELSE "false"
      [] v.k = "function" -> v.src
      [] v.k = "error" -> v.name
      [] v.k = "ref" ->
           LET c == h[v.a]
           IN  CASE c.k = "date" -> DateToString(c.t)
                 [] c.k = "object" -> "[object Object]"
                 [] c.k = "array" ->
                      LET item(i) == IF IsNullish(c.elems[i]) THEN ""
                                     ELSE JsToString(h, c.elems[i])
                          join[i \in 0..Len(c.elems)] ==
                              IF i = 0 THEN ""
                              ELSE IF i = 1 THEN item(1)
                              ELSE join[i - 1] \o "," \o item(i)
                      IN  join[Len(c.elems)]

\* The numbers a numeric text of the model can spell.
NumberUniverse == {Num(n, f) : n \in -1..200, f \in {0, 5}}

\* Number(s) of a string.
StrToNumber(s) ==
    IF s = "" THEN NumInt(0)
    ELSE IF \E x \in NumberUniverse : NumToString(x) = s
         THEN CHOOSE x \in NumberUniverse : NumToString(x) = s
         ELSE NaN

\* Number(v): the numeric conversion the relational operators apply.
ToNumber(h, v) ==
    CASE v.k = "undefined" -> NaN
      [] v.k = "null" -> NumInt(0)
      [] v.k \in {"number", "NaN"} -> v
      [] v.k = "string" -> StrToNumber(v.s)
      [] v.k = "boolean" -> IF v.b THEN NumInt(1) ELSE NumInt(0)
      [] v.k = "ref" -> IF IsDate(h, v) THEN NumInt(h[v.a].t)
                        ELSE StrToNumber(JsToString(h, v))
      [] OTHER -> NaN

NumLess(x, y) ==
    /\ x.k = "number"
    /\ y.k = "number"
    /\ (x.n < y.n \/ (x.n = y.n /\ x.f < y.f))

\* a < b, where b is a number (as every bound option of the model is): both
\* sides are converted to numbers, and a comparison with NaN is false.
JsLess(h, a, b) == NumLess(ToNumber(h, a), ToNumber(h, b))

\* a > b
JsGreater(h, a, b) == NumLess(ToNumber(h, b), ToNumber(h, a))

\* v.length of a value that is neither null nor undefined.
LengthOf(h, v) ==
    CASE v.k = "string" -> NumInt(Len(v.s))
      [] v.k = "function" -> NumInt(0)
      [] IsArray(h, v) -> NumInt(Len(h[v.a].elems))
      [] v.k = "ref" /\ h[v.a].k = "object" /\ "length" \in DOMAIN h[v.a].props ->
           h[v.a].props["length"]
      [] OTHER -> Undef

\* v % 1 !== 0
HasFraction(v) == v.k = "NaN" \/ (v.k = "number" /\ v.f # 0)

\* The properties every object literal {} inherits from Object.prototype.
ObjectPrototype ==
    {"constructor", "toString", "toLocaleString", "valueOf", "hasOwnProperty",
     "isPrototypeOf", "propertyIsEnumerable", "__proto__"}

\* key in obj, for an object literal with the own keys of function obj.
HasProperty(obj, key) == key \in DOMAIN obj \/ key \in ObjectPrototype

\* Stands for a function inherited from Object.prototype.
Inherited(key) == [k |-> "inherited", key |-> key]

\* obj[key], for an object literal with the own keys of function obj.
GetProperty(obj, key) ==
    IF key \in DOMAIN obj THEN obj[key]
    ELSE IF key \in ObjectPrototype THEN Inherited(key)
    ELSE Undef

\* Date.parse(s): the time of a date text, NaN for any other text.
DateParse(s) == IF s = "2014-01-01 12:00" THEN NumInt(16071) ELSE NaN
(***************************************************************************)
(* How a call ends: it returns a value, with the heap cells it created, or *)
(* it throws one.                                                          *)
(***************************************************************************)
Return(v, cells) == [threw |-> FALSE, value |-> v, cells |-> cells]

Throw(ex) == [threw |-> TRUE, value |-> ex, cells |-> EmptyHeap]

(***************************************************************************)
(* The built-in validation rules: rule(val, opt) returns a message, or     *)
(* undefined when val passes.                                              *)
(***************************************************************************)
maxLengthRule(h, val, opt) ==
    IF ~Truthy(opt.maxLength) THEN Return(Undef, EmptyHeap)
    ELSE IF IsNullish(val) THEN Throw(TypeError)
    ELSE IF JsGreater(h, LengthOf(h, val), opt.maxLength)
         THEN Return(Str("must not be greater than "
                         \o JsToString(h, opt.maxLength) \o " characters"), EmptyHeap)
         ELSE Return(Undef, EmptyHeap)

minLengthRule(h, val, opt) ==
    IF ~Truthy(opt.minLength) THEN Return(Undef, EmptyHeap)
    ELSE IF IsNullish(val) THEN Throw(TypeError)
    ELSE IF JsLess(h, LengthOf(h, val), opt.minLength)
         THEN Return(Str("must be at least "
                         \o JsToString(h, opt.minLength) \o " characters"), EmptyHeap)
         ELSE Return(Undef, EmptyHeap)

nullRule(h, val, opt) ==
    IF ~Truthy(opt.allowNull) /\ val.k = "null"
    THEN Return(Str("must not be null"), EmptyHeap)
    ELSE Return(Undef, EmptyHeap)

undefinedRule(h, val, opt) ==
    IF ~Truthy(opt.allowUndefined) /\ TypeOf(val) = "undefined"
    THEN Return(Str("must be defined"), EmptyHeap)
    ELSE Return(Undef, EmptyHeap)

minRule(h, val, opt) ==
    IF val.k = "null" \/ TypeOf(val) = "undefined" THEN Return(Undef, EmptyHeap)
    ELSE IF Truthy(opt.min) /\ JsLess(h, val, opt.min)
         THEN Return(Str("value must be at least " \o JsToString(h, opt.min)), EmptyHeap)
         ELSE Return(Undef, EmptyHeap)

maxRule(h, val, opt) ==
    IF val.k = "null" \/ TypeOf(val) = "undefined" THEN Return(Undef, EmptyHeap)
    ELSE IF Truthy(opt.max) /\ JsGreater(h, val, opt.max)
         THEN Return(Str("value must not be greater than "
                         \o JsToString(h, opt.max)), EmptyHeap)
         ELSE Return(Undef, EmptyHeap)

isStringRule(h, val, opt) ==
    IF val.k = "null" \/ TypeOf(val) = "undefined" THEN Return(Undef, EmptyHeap)
    ELSE IF TypeOf(val) # "string" THEN Return(Str("value must be a string"), EmptyHeap)
    ELSE Return(Undef, EmptyHeap)

isIntRule(h, val, opt) ==
    IF val.k = "null" \/ TypeOf(val) = "undefined" THEN Return(Undef, EmptyHeap)
    ELSE IF TypeOf(val) # "number" THEN Return(Str("value must be a number"), EmptyHeap)
    ELSE IF HasFraction(val)
         THEN Return(Str("the number " \o JsToString(h, val)
                         \o " is not an integer"), EmptyHeap)
         ELSE Return(Undef, EmptyHeap)

isNumberRule(h, val, opt) ==
    IF val.k = "null" \/ TypeOf(val) = "undefined" THEN Return(Undef, EmptyHeap)
    ELSE IF TypeOf(val) # "number" THEN Return(Str("value must be a number"), EmptyHeap)
    ELSE Return(Undef, EmptyHeap)

isArrayRule(h, val, opt) ==
    IF val.k = "null" \/ TypeOf(val) = "undefined" THEN Return(Undef, EmptyHeap)
    ELSE IF ~IsArray(h, val) THEN Return(Str("value is not an array"), EmptyHeap)
    ELSE Return(Undef, EmptyHeap)

isDateRule(h, val, opt) ==
    IF IsNullish(val) \/ TypeOf(val) = "undefined" THEN Return(Undef, EmptyHeap)
    ELSE IF ~IsDate(h, val) THEN Return(Str("value is not a date"), EmptyHeap)
    ELSE Return(Undef, EmptyHeap)

\* rule(val, opt), for the rule of that name.
ApplyRule(h, rule, val, opt) ==
    CASE rule = "maxLengthRule" -> maxLengthRule(h, val, opt)
      [] rule = "minLengthRule" -> minLengthRule(h, val, opt)
      [] rule = "nullRule" -> nullRule(h, val, opt)
      [] rule = "undefinedRule" -> undefinedRule(h, val, opt)
      [] rule = "minRule" -> minRule(h, val, opt)
      [] rule = "maxRule" -> maxRule(h, val, opt)
      [] rule = "isStringRule" -> isStringRule(h, val, opt)
      [] rule = "isIntRule" -> isIntRule(h, val, opt)
      [] rule = "isNumberRule" -> isNumberRule(h, val, opt)
      [] rule = "isArrayRule" -> isArrayRule(h, val, opt)
      [] rule = "isDateRule" -> isDateRule(h, val, opt)

(***************************************************************************)
(* The default field types: a name, the rules in order, and a coerce       *)
(* function (named after its field type).                                  *)
(***************************************************************************)
stringFieldType ==
    [k |-> "fieldType", name |-> "string", coerce |-> "string",
     rules |-> <<"maxLengthRule", "minLengthRule", "nullRule", "undefinedRule",
                 "isStringRule">>]

arrayFieldType ==
    [k |-> "fieldType", name |-> "array", coerce |-> "array",
     rules |-> <<"maxLengthRule", "minLengthRule", "nullRule", "undefinedRule",
                 "isArrayRule">>]

intFieldType ==
    [k |-> "fieldType", name |-> "int", coerce |-> "int",
     rules |-> <<"maxRule", "minRule", "nullRule", "undefinedRule", "isIntRule">>]

numberFieldType ==
    [k |-> "fieldType", name |-> "number", coerce |-> "number",
     rules |-> <<"maxRule", "minRule", "nullRule", "undefinedRule", "isNumberRule">>]

datetimeFieldType ==
    [k |-> "fieldType", name |-> "datetime", coerce |-> "datetime",
     rules |-> <<"maxRule", "minRule", "nullRule", "undefinedRule", "isDateRule">>]

\* stringFieldType.coerce(val)
stringCoerce(h, val, a) ==
    IF val.k = "null" \/ TypeOf(val) \in {"undefined", "string"}
    THEN Return(val, EmptyHeap)
    ELSE Return(Str(JsToString(h, val)), EmptyHeap)

\* arrayFieldType.coerce(val): a new array, at address a, of the same elements.
arrayCoerce(h, val, a) ==
    IF val.k = "null" \/ TypeOf(val) = "undefined" \/ ~IsArray(h, val)
    THEN Return(val, EmptyHeap)
    ELSE Return(Ref(a), a :> [k |-> "array", elems |-> h[val.a].elems])

\* intFieldType.coerce(val) and numberFieldType.coerce(val)
intCoerce(h, val, a) == Return(val, EmptyHeap)

\* new Date(millis), at address a, unless millis is NaN.
DateOf(val, millis, a) ==
    IF millis.k = "NaN"
    THEN Throw(Str("not a valid date string: '" \o val.s \o "'"))
    ELSE Return(Ref(a), a :> [k |-> "date", t |-> millis.n])

\* datetimeFieldType.coerce(val).  The variable type is declared below its
\* first use, where it is still undefined and so never equals "undefined".
datetimeCoerce(h, val, a) ==
    IF val.k = "null" \/ Undef = Str("undefined") THEN Return(val, EmptyHeap)
    ELSE IF TypeOf(val) = "string" THEN DateOf(val, DateParse(val.s), a)
    ELSE Return(val, EmptyHeap)

\* fieldType.coerce(val), the new cells at address a.
FieldTypeCoerce(h, fieldType, val, a) ==
    CASE fieldType.coerce = "string" -> stringCoerce(h, val, a)
      [] fieldType.coerce = "array" -> arrayCoerce(h, val, a)
      [] fieldType.coerce \in {"int", "number"} -> intCoerce(h, val, a)
      [] fieldType.coerce = "datetime" -> datetimeCoerce(h, val, a)

(***************************************************************************)
(* Field: a name, a field type and the options given at its declaration    *)
(* (an option that was not given reads as undefined).                      *)
(***************************************************************************)
NoOptions ==
    [defaultValue |-> Undef, allowNull |-> Undef, allowUndefined |-> Undef,
     minLength |-> Undef, maxLength |-> Undef, min |-> Undef, max |-> Undef,
     elementType |-> Undef]

Field(name, fieldType, typeOptions) ==
    [name |-> name, fieldType |-> fieldType, typeOptions |-> typeOptions]

defaultCoerce(field, val) ==
    IF TypeOf(field.typeOptions.defaultValue) # "undefined" /\ TypeOf(val) = "undefined"
    THEN field.typeOptions.defaultValue
    ELSE val

\* field.coerce(val), the new cells at address a.
FieldCoerce(h, field, val, a) ==
    IF field.fieldType.k = "fieldType"
    THEN FieldTypeCoerce(h, field.fieldType, defaultCoerce(field, val), a)
    ELSE Return(defaultCoerce(field, val), EmptyHeap)

\* if (currentError) errors.push(currentError), unless a rule has thrown.
PushError(errors, currentError) ==
    IF currentError.threw THEN currentError
    ELSE IF Truthy(currentError.value)
         THEN Return(Append(errors.value, currentError.value), EmptyHeap)
         ELSE errors

\* field.validate(val): the messages of the rules, in order; a rule that
\* throws ends the call.  A field type without rules has no forEach to call.
FieldValidate(h, field, val) ==
    IF field.fieldType.k # "fieldType" THEN Throw(TypeError)
    ELSE LET run[i \in 0..Len(field.fieldType.rules)] ==
                 IF i = 0 THEN Return(<<>>, EmptyHeap)
                 ELSE IF run[i - 1].threw THEN run[i - 1]
                 ELSE PushError(run[i - 1],
                                ApplyRule(h, field.fieldType.rules[i], val,
                                          field.typeOptions))
         IN  run[Len(field.fieldType.rules)]

(***************************************************************************)
(* Type: a name and its fields, in the order of their declaration.         *)
(***************************************************************************)
NoFields == [f \in {} |-> Undef]

Type(name) == [k |-> "type", name |-> name, fieldNames |-> <<>>, fields |-> NoFields]

(***************************************************************************)
(* Model.validate(data, typeName)                                          *)
(***************************************************************************)
\* JSON.parse(text): the texts of the model parse to an object, to a number
\* or to null, or do not parse.
JsonParse(text) ==
    CASE text = "{\"name\":\"Graeme\"}" ->
           Return(ObjT(<<"name">>, [key \in {"name"} |-> Str("Graeme")]), EmptyHeap)
      [] text = "null" -> Return(Null, EmptyHeap)
      [] text = "5" -> Return(NumInt(5), EmptyHeap)
      [] OTHER -> Throw(SyntaxError)

\* obj = JSON.parse(data), laid out at address "parsed".
Parsed(parsed) ==
    IF parsed.threw THEN parsed
    ELSE Return(ValAt(parsed.value, "parsed"), Alloc(parsed.value, "parsed"))

\* The object that validate reads: data itself, or what its JSON text
\* parses to.
Normalize(data) ==
    IF TypeOf(data) = "string" THEN Parsed(JsonParse(data.s))
    ELSE IF TypeOf(data) # "object"
         THEN Throw(ModelMeError("Value passed to data param of validate() function must be an object or a json string"))
         ELSE Return(data, EmptyHeap)

\* The keys that for (fieldName in obj) visits, in order.
ForInKeys(h, obj) ==
    IF obj.k # "ref" THEN <<>>
    ELSE CASE h[obj.a].k = "object" -> h[obj.a].keys
           [] h[obj.a].k = "array" -> [i \in 1..Len(h[obj.a].elems) |-> ToString(i - 1)]
           [] OTHER -> <<>>

\* obj[key], for a key that for-in visited.
OwnValue(h, obj, key) ==
    IF h[obj.a].k = "object" THEN h[obj.a].props[key]
    ELSE h[obj.a].elems[CHOOSE i \in 1..Len(h[obj.a].elems) : ToString(i - 1) = key]

Range(seq) == {seq[i] : i \in 1..Len(seq)}

\* The entries of the keys of obj, each with its field if type declares one.
SummaryOfObject(h, obj, type, objKeys) ==
    [i \in 1..Len(objKeys) |->
        [name |-> objKeys[i],
         value |-> OwnValue(h, obj, objKeys[i]),
         hasField |-> objKeys[i] \in Range(type.fieldNames),
         field |-> IF objKeys[i] \in Range(type.fieldNames)
                   THEN type.fields[objKeys[i]] ELSE Undef]]

\* The entries of the fields that are no property of the entries so far.
SummaryOfType(type, missing) ==
    [i \in 1..Len(missing) |->
        [name |-> missing[i], value |-> Undef, hasField |-> TRUE,
         field |-> type.fields[missing[i]]]]

\* getFieldSummary(obj, type): an entry for every key of obj, then one for
\* every field of type that is not a property of the entries so far.  Reading
\* type.fields throws when type is undefined, and finds no field when type
\* is inherited from Object.prototype.
getFieldSummary(h, obj, type) ==
    IF type.k = "undefined" THEN Throw(TypeError)
    ELSE IF type.k # "type"
         THEN Return(SummaryOfObject(h, obj, Type(""), ForInKeys(h, obj)), EmptyHeap)
         ELSE Return(SummaryOfObject(h, obj, type, ForInKeys(h, obj))
                     \o SummaryOfType(type,
                            SelectSeq(type.fieldNames,
                                      LAMBDA name :
                                          /\ name \notin Range(ForInKeys(h, obj))
                                          /\ name \notin ObjectPrototype)),
                     EmptyHeap)

\* A catch clause that swallows the exception.
CatchError_Swallows(acc, fieldName, ex) == acc

\* errors.push({ field: fieldName, message: ex }) of the catch clause.
CatchError(acc, fieldName, ex) ==
    [acc EXCEPT !.errors = Append(@, [field |-> fieldName, message |-> ex])]

\* The messages of a field are pushed and its coerced value is stored in
\* result; when validate threw, the catch clause takes over.
StoreField(acc, info, coerced, fieldErrors) ==
    IF fieldErrors.threw THEN CatchError(acc, info.name, fieldErrors.value)
    ELSE [errors |-> acc.errors \o
                     [i \in 1..Len(fieldErrors.value) |->
                         [field |-> info.name, message |-> fieldErrors.value[i]]],
          keys |-> Append(acc.keys, info.name),
          props |-> (info.name :> coerced.value) @@ acc.props,
          cells |-> coerced.cells @@ acc.cells]

\* The coerced value of a field is validated; when coerce threw, the catch
\* clause takes over.
CheckField(h, acc, info, coerced) ==
    IF coerced.threw THEN CatchError(acc, info.name, coerced.value)
    ELSE StoreField(acc, info, coerced,
                    FieldValidate(coerced.cells @@ h, info.field, coerced.value))

\* One turn of the loop of validate for a declared field: coerce, validate,
\* push the messages and store the coerced value (its cells under "out").
FieldStep(h, acc, info) ==
    CheckField(h, acc, info,
               FieldCoerce(h, info.field, info.value, PropAddr("out", info.name)))

\* The loop of validate over the field summary.
FieldLoop(h, infos) ==
    LET loop[i \in 0..Len(infos)] ==
            IF i = 0
            THEN [errors |-> <<>>, keys |-> <<>>, props |-> NoFields,
                  cells |-> EmptyHeap]
            ELSE IF infos[i].hasField THEN FieldStep(h, loop[i - 1], infos[i])
            ELSE loop[i - 1]
    IN  loop[Len(infos)]

\* A return that hands out result whatever the errors.
ResultOf_KeepsEntity(errors, result) ==
    [k |-> "result", entity |-> result, errors |-> errors]

\* The object validate returns; result is the new object, at address "out".
ResultOf(errors, result) ==
    [k |-> "result", entity |-> IF Len(errors) > 0 THEN Null ELSE result,
     errors |-> errors]

\* return { entity: ..., errors: errors }, with the cells validate created.
ReturnResult(obj, done) ==
    Return(ResultOf(done.errors, Ref("out")),
           ("out" :> [k |-> "object", keys |-> done.keys, props |-> done.props])
           @@ done.cells @@ obj.cells)

\* `!typeName in types`: the negation is applied first, so the key looked
\* up is "true" or "false".
TypeMissing(tys, typeName) ==
    HasProperty(tys, JsToString(EmptyHeap, Bool(~Truthy(typeName))))

\* validate from the field summary on.
ValidateSummary(h, obj, fieldSummary) ==
    IF fieldSummary.threw THEN fieldSummary
    ELSE ReturnResult(obj, FieldLoop(h, fieldSummary.value))

\* validate from the normalized object on.
ValidateObject(h, tys, typeName, obj) ==
    IF obj.threw THEN obj
    ELSE ValidateSummary(obj.cells @@ h, obj,
                         getFieldSummary(obj.cells @@ h, obj.value,
                                         GetProperty(tys, JsToString(h, typeName))))

ModelValidate(h, tys, data, typeName) ==
    IF TypeMissing(tys, typeName)
    THEN Throw(ModelMeError("The type '" \o JsToString(h, typeName)
                            \o "' does not exist"))
    ELSE ValidateObject(h, tys, typeName, Normalize(data))

(***************************************************************************)
(* The calls of the model: what the callers pass.                          *)
(***************************************************************************)
DateText == "2014-01-01 12:00"

BadDateText == "this is not a valid date string"

\* new Date(), on the day of DateText.
Now == DateT(16071)

\* function() { return new Date(); }
NowFunction == Func("function() { return new Date(); }", Now)

\* The field types passed to addFieldType.
FieldTypeInputs == {stringFieldType, numberFieldType}

\* The names passed to Model.type.
TypeNameInputs == {Str("Person"), Str("false"), Str(""), Str("toString"), NumInt(7)}

Complex(type) == [k |-> "elementType", mode |-> "complex", type |-> type]

Simple(type) == [k |-> "elementType", mode |-> "simple", type |-> type]

\* The declarations passed to Type.field: the fields of the Person of the
\* tests and variants of their options.
FieldDeclInputs ==
    { [type |-> "Person", fieldName |-> "name", typeName |-> "string",
       typeOptions |-> [NoOptions EXCEPT !.minLength = NumInt(1),
                                         !.maxLength = NumInt(20)]],
      [type |-> "Person", fieldName |-> "name", typeName |-> "string",
       typeOptions |-> [NoOptions EXCEPT !.allowNull = Bool(TRUE),
                                         !.maxLength = NumInt(20)]],
      [type |-> "Person", fieldName |-> "name", typeName |-> "string",
       typeOptions |-> [NoOptions EXCEPT !.defaultValue = Str("-")]],
      [type |-> "Person", fieldName |-> "age", typeName |-> "int",
       typeOptions |-> [NoOptions EXCEPT !.min = NumInt(0), !.max = NumInt(200)]],
      [type |-> "Person", fieldName |-> "age", typeName |-> "number",
       typeOptions |-> [NoOptions EXCEPT !.allowNull = Bool(TRUE)]],
      [type |-> "Person", fieldName |-> "created", typeName |-> "datetime",
       typeOptions |-> [NoOptions EXCEPT !.defaultValue = NowFunction]],
      [type |-> "Person", fieldName |-> "created", typeName |-> "datetime",
       typeOptions |-> NoOptions],
      [type |-> "Person", fieldName |-> "friends", typeName |-> "array",
       typeOptions |-> [NoOptions EXCEPT !.elementType = Complex("Person"),
                                         !.defaultValue = ArrT(<<>>)]],
      [type |-> "Person", fieldName |-> "friends", typeName |-> "array",
       typeOptions |-> [NoOptions EXCEPT !.elementType = Simple("int"),
                                         !.defaultValue = ArrT(<<>>)]],
      [type |-> "Person", fieldName |-> "constructor", typeName |-> "string",
       typeOptions |-> NoOptions] }

\* A friend without a name, and a friend whose date is a text.
Nameless == ObjT(<<"name">>, [key \in {"name"} |-> Null])

Hayley ==
    ObjT(<<"name", "created">>,
         [key \in {"name", "created"} |->
             IF key = "name" THEN Str("Hayley") ELSE Str(DateText)])

\* The arrays of friends an input holds.
FriendArrays == {<<>>, <<Nameless>>, <<Hayley>>, <<Hayley, Nameless>>}

Absent == [k |-> "absent"]

\* The values an input object holds under each key (Absent: no such key).
KeyInputs ==
    [name |-> {Absent, Null, Str("Graeme")},
     age |-> {Absent, NumInt(27), Now},
     created |-> {Absent, Str(DateText), Str(BadDateText)},
     friends |-> {Absent} \cup {ArrT(a) : a \in FriendArrays}]

InputKeys == <<"name", "age", "created", "friends">>

\* The object that holds value pick[key] under every key that is not Absent.
ObjectOf(pick) ==
    ObjT(SelectSeq(InputKeys, LAMBDA key : pick[key] # Absent),
         [key \in {x \in Range(InputKeys) : pick[x] # Absent} |-> pick[key]])

\* The objects passed to validate.
ObjectInputs ==
    {ObjectOf(pick) : pick \in [name : KeyInputs.name, age : KeyInputs.age,
                                created : KeyInputs.created,
                                friends : KeyInputs.friends]}

\* The other data passed to validate: JSON texts, and values that are neither
\* an object nor a text.
OtherInputs ==
    {ObjT(<<>>, NoFields), Str("{\"name\":\"Graeme\"}"), Str("null"), Str("5"),
     Str("{oops"), Null, NumInt(5)}

\* The type names passed to validate.
TypeNameArgs == {Str("Person"), Str("Nope"), Str("false"), Str("toString"), Str("")}

\* The arguments of validate: every object against Person, and the other
\* data against every type name.
ValidateInputs ==
    {[data |-> data, typeName |-> Str("Person")] : data \in ObjectInputs}
    \cup {[data |-> data, typeName |-> typeName] :
             data \in OtherInputs, typeName \in TypeNameArgs}

\* The values passed to Field.coerce and Field.validate.
FieldValueInputs ==
    {Undef, Null, NumInt(-1), NumInt(27), NumInt(201), Num(1, 5),
     Str(""), Str("Graeme"), Str(BadDateText), Now, ArrT(<<NumInt(1), Str("x")>>)}

(***************************************************************************)
(* The state: the registries of the Model, the heap, and the latest call   *)
(* with how it ended.  A caller keeps the data and the result of its       *)
(* latest call only, until it discards them (call.op is then "none");      *)
(* mutated says whether it has since written to the entity or the input.   *)
(***************************************************************************)
Restrict(h, addrs) == [a \in (DOMAIN h) \cap addrs |-> h[a]]

\* The cells of the default values that the fields of the Model hold.
SchemaCells(h, tys) ==
    UNION {UNION {Reach(h, tys[t].fields[f].typeOptions.defaultValue) :
                     f \in DOMAIN tys[t].fields} : t \in DOMAIN tys}

\* The number of fields declared over all Types.
FieldCount(tys) ==
    Cardinality(UNION {{<<t, f>> : f \in DOMAIN tys[t].fields} : t \in DOMAIN tys})

\* What the variables ret and call record of a call.
Outcome(r) == [threw |-> r.threw, value |-> r.value]

Init ==
    /\ fieldTypes = [name \in {"string", "int", "datetime", "array"} |->
                        CASE name = "string" -> stringFieldType
                          [] name = "int" -> intFieldType
                          [] name = "datetime" -> datetimeFieldType
                          [] name = "array" -> arrayFieldType]
    /\ types = [name \in {} |-> Undef]
    /\ heap = EmptyHeap
    /\ call = [op |-> "none"]
    /\ ret = Outcome(Return(Undef, EmptyHeap))
    /\ mutated = "none"

\* Model.addFieldType(fieldType)
AddFieldType(fieldType) ==
    /\ call.op = "none"
    /\ call' = [op |-> "addFieldType", fieldType |-> fieldType]
    /\ IF HasProperty(fieldTypes, fieldType.name)
       THEN /\ ret' = Outcome(Throw(ModelMeError("The field type '" \o fieldType.name
                                                 \o "' already exists")))
            /\ fieldTypes' = fieldTypes
       ELSE /\ ret' = Outcome(Return(Undef, EmptyHeap))
            /\ fieldTypes' = (fieldType.name :> fieldType) @@ fieldTypes
    /\ heap' = Restrict(heap, SchemaCells(heap, types))
    /\ mutated' = "none"
    /\ UNCHANGED types

\* new Type(name, model): the checks of the constructor.
NewType(name) ==
    IF TypeOf(name) # "string" THEN Throw(ModelMeError("Type name must be a string"))
    ELSE IF Len(name.s) = 0
         THEN Throw(ModelMeError("Type name must not be empty string"))
         ELSE Return(Type(name.s), EmptyHeap)

\* Model.type(name)
ModelType(name) ==
    LET key == JsToString(heap, name)
        newType == NewType(name)
    IN  /\ call.op = "none"
        /\ call' = [op |-> "type", name |-> name]
        /\ IF HasProperty(types, key)
           THEN /\ ret' = Outcome(Throw(ModelMeError("A type with name '" \o key
                                                     \o "' already exists")))
                /\ types' = types
           ELSE IF newType.threw
                THEN /\ ret' = Outcome(newType)
                     /\ types' = types
                ELSE /\ ret' = Outcome(newType)
                     /\ types' = (key :> newType.value) @@ types
        /\ heap' = Restrict(heap, SchemaCells(heap, types))
        /\ mutated' = "none"
        /\ UNCHANGED fieldTypes

\* Type.field(fieldName, typeName, typeOptions) on the Type named t.  An
\* array or object among the options is laid out in the heap.
TypeField(t, fieldName, typeName, typeOptions) ==
    LET fieldType == GetProperty(fieldTypes, typeName)
        a == PropAddr(PropAddr(PropAddr("opt", t), fieldName), "defaultValue")
        options == [typeOptions EXCEPT !.defaultValue = ValAt(@, a)]
        newField == Field(fieldName, fieldType, options)
        kept == Restrict(heap, SchemaCells(heap, types))
    IN  /\ call.op = "none"
        /\ t \in DOMAIN types
        /\ FieldCount(types) < MaxFields
        /\ call' = [op |-> "field", type |-> t, fieldName |-> fieldName,
                    typeName |-> typeName, typeOptions |-> typeOptions]
        /\ IF ~Truthy(fieldType)
           THEN /\ ret' = Outcome(Throw(ModelMeError("The type '" \o typeName
                                                     \o "' is not valid")))
                /\ types' = types
                /\ heap' = kept
           ELSE IF HasProperty(types[t].fields, fieldName)
                THEN /\ ret' = Outcome(Throw(ModelMeError(
                                   "The field '" \o fieldName
                                   \o "' already exists on type '" \o types[t].name
                                   \o "'")))
                     /\ types' = types
                     /\ heap' = kept
                ELSE /\ ret' = Outcome(Return(newField, EmptyHeap))
                     /\ types' = [types EXCEPT
                                    ![t].fieldNames = Append(@, fieldName),
                                    ![t].fields = (fieldName :> newField) @@ @]
                     /\ heap' = Alloc(typeOptions.defaultValue, a) @@ kept
        /\ mutated' = "none"
        /\ UNCHANGED fieldTypes

\* A call that ends as r in heap h: the caller keeps what is reachable from
\* the value it passed and from the value it got.
Called(c, h, r, passed, got) ==
    /\ call.op = "none"
    /\ call' = c
    /\ ret' = Outcome(r)
    /\ heap' = Restrict(h, SchemaCells(heap, types) \cup Reach(h, passed)
                            \cup Reach(h, got))
    /\ mutated' = "none"
    /\ UNCHANGED <<fieldTypes, types>>

\* The heap of a call that is passed tree v: v is laid out at address "in".
Passing(v) == Alloc(v, "in") @@ Restrict(heap, SchemaCells(heap, types))

ValidateEnd(data, typeName, h, r) ==
    Called([op |-> "validate", data |-> data, typeName |-> typeName],
           r.cells @@ h, r, ValAt(data, "in"),
           IF r.threw THEN Undef ELSE r.value.entity)

ValidateIn(data, typeName, h) ==
    ValidateEnd(data, typeName, h,
                ModelValidate(h, types, ValAt(data, "in"), typeName))

\* Model.validate(data, typeName)
Validate(data, typeName) == ValidateIn(data, typeName, Passing(data))

FieldCoerceEnd(t, f, val, h, r) ==
    Called([op |-> "Field.coerce", type |-> t, field |-> f, val |-> val],
           r.cells @@ h, r, ValAt(val, "in"), IF r.threw THEN Undef ELSE r.value)

FieldCoerceIn(t, f, val, h) ==
    FieldCoerceEnd(t, f, val, h,
                   FieldCoerce(h, types[t].fields[f], ValAt(val, "in"), "out"))

\* field.coerce(val) on field f of the Type named t; what coerce creates is
\* laid out at address "out".
FieldCoerceCall(t, f, val) == FieldCoerceIn(t, f, val, Passing(val))

FieldValidateIn(t, f, val, h) ==
    Called([op |-> "Field.validate", type |-> t, field |-> f, val |-> val],
           h, FieldValidate(h, types[t].fields[f], ValAt(val, "in")),
           ValAt(val, "in"), Undef)

\* field.validate(val) on field f of the Type named t.
FieldValidateCall(t, f, val) == FieldValidateIn(t, f, val, Passing(val))

\* A write of the caller to the object, array or Date of a cell: it sets the
\* property name, appends an element, or moves the Date by a day.
Written(cell) ==
    CASE cell.k = "object" ->
           [cell EXCEPT !.keys = IF "name" \in Range(@) THEN @ ELSE Append(@, "name"),
                        !.props = ("name" :> Str("changed")) @@ @]
      [] cell.k = "array" -> [cell EXCEPT !.elems = Append(@, Str("changed"))]
      [] cell.k = "date" -> [cell EXCEPT !.t = @ + 1]

\* validate has returned an entity.
HasEntity ==
    /\ call.op = "validate"
    /\ ~ret.threw
    /\ ret.value.entity # Null

\* The caller writes to the entity that validate returned, or to an object
\* nested in it.
MutateEntity(a) ==
    /\ HasEntity
    /\ mutated = "none"
    /\ a \in Reach(heap, ret.value.entity)
    /\ heap' = [heap EXCEPT ![a] = Written(@)]
    /\ mutated' = "entity"
    /\ UNCHANGED <<fieldTypes, types, call, ret>>

\* The caller writes to the data it passed to validate, or to an object
\* nested in it.
MutateInput(a) ==
    /\ HasEntity
    /\ mutated = "none"
    /\ a \in Reach(heap, ValAt(call.data, "in"))
    /\ heap' = [heap EXCEPT ![a] = Written(@)]
    /\ mutated' = "input"
    /\ UNCHANGED <<fieldTypes, types, call, ret>>

\* The caller lets go of the data and the result of its latest call.
Discard ==
    /\ call.op # "none"
    /\ call' = [op |-> "none"]
    /\ ret' = Outcome(Return(Undef, EmptyHeap))
    /\ heap' = Restrict(heap, SchemaCells(heap, types))
    /\ mutated' = "none"
    /\ UNCHANGED <<fieldTypes, types>>

Next ==
    \/ \E fieldType \in FieldTypeInputs : AddFieldType(fieldType)
    \/ \E name \in TypeNameInputs : ModelType(name)
    \/ \E d \in FieldDeclInputs :
          TypeField(d.type, d.fieldName, d.typeName, d.typeOptions)
    \/ \E in \in ValidateInputs : Validate(in.data, in.typeName)
    \/ \E t \in DOMAIN types, val \in FieldValueInputs :
          \E f \in DOMAIN types[t].fields : FieldCoerceCall(t, f, val)
    \/ \E t \in DOMAIN types, val \in FieldValueInputs :
          \E f \in DOMAIN types[t].fields : FieldValidateCall(t, f, val)
    \/ \E a \in DOMAIN heap : MutateEntity(a)
    \/ \E a \in DOMAIN heap : MutateInput(a)
    \/ Discard

Spec == Init /\ [][Next]_vars

(***************************************************************************)
(* The latest call, as the properties below read it.                       *)
(***************************************************************************)
\* validate has returned its result, and the caller has written nothing.
Validated == call.op = "validate" /\ ~ret.threw /\ mutated = "none"

\* The heap in which a call that is passed tree v runs.
CallHeapOf(v) == Alloc(v, "in") @@ Restrict(heap, SchemaCells(heap, types))

\* The heap in which the latest call to validate ran.
CallHeap == CallHeapOf(call.data)

\* The Type that the type name of the latest call names.
CallType == GetProperty(types, JsToString(EmptyHeap, call.typeName))

\* validate was called with an object and the name of a declared Type, and
\* went on to the fields: their summary, in the heap of the call.
ReachedFields ==
    /\ call.op = "validate"
    /\ mutated = "none"
    /\ ~TypeMissing(types, call.typeName)
    /\ CallType.k = "type"
    /\ IsTree(call.data)

CallSummary == getFieldSummary(CallHeap, Ref("in"), CallType).value

DeclaredEntries == {i \in 1..Len(CallSummary) : CallSummary[i].hasField}

\* What coerce, and then validate, make of entry i: how the two calls end.
Coerced(i) ==
    FieldCoerce(CallHeap, CallSummary[i].field, CallSummary[i].value,
                PropAddr("out", CallSummary[i].name))

CheckedAfter(i, coerced) ==
    FieldValidate(coerced.cells @@ CallHeap, CallSummary[i].field, coerced.value)

\* The messages that entry i owes to the errors of the result.
OwnMessagesAfter(coerced, checked) ==
    IF coerced.threw THEN <<coerced.value>>
    ELSE IF checked.threw THEN <<checked.value>>
    ELSE checked.value

OwnMessages(i) == OwnMessagesAfter(Coerced(i), CheckedAfter(i, Coerced(i)))

\* The messages that the errors of the result hold for a field.
MessagesOf(errors, name) ==
    LET own == SelectSeq(errors, LAMBDA e : e.field = name)
    IN  [j \in 1..Len(own) |-> own[j].message]

(***************************************************************************)
(* C1                                                                      *)
(***************************************************************************)
\* C1: whenever validate returns a result, its entity is null if and only
\* if its errors are not empty.
C1_EntityNullIffErrors ==
    (call.op = "validate" /\ ~ret.threw)
        => ((ret.value.entity = Null) <=> (Len(ret.value.errors) > 0))

\* validate returned errors (of two fields) and no entity.
C1_Witness ==
    /\ call.op = "validate"
    /\ ~ret.threw
    /\ Len(ret.value.errors) > 1
    /\ ret.value.entity = Null

(***************************************************************************)
(* C7                                                                      *)
(***************************************************************************)
\* C7: when the coercion of a declared field fails, validate does not throw:
\* its result has no entity and exactly one error for that field, and holds
\* for every other declared field the messages of its own coercion and rules.
C7_CoercionFailureIsCollected ==
    ReachedFields =>
        \A i \in DeclaredEntries :
            Coerced(i).threw =>
                /\ ~ret.threw
                /\ ret.value.entity = Null
                /\ MessagesOf(ret.value.errors, CallSummary[i].name)
                       = <<Coerced(i).value>>
                /\ \A j \in DeclaredEntries :
                       MessagesOf(ret.value.errors, CallSummary[j].name)
                           = OwnMessages(j)

\* A date text did not parse, and a field after it has an error of its own.
C7_Witness ==
    /\ Validated
    /\ \E i, j \in 1..Len(ret.value.errors) :
          /\ i < j
          /\ ret.value.errors[i].field = "created"
          /\ ret.value.errors[i].message
                 = Str("not a valid date string: '" \o BadDateText \o "'")
          /\ ret.value.errors[j].field # "created"
(***************************************************************************)
(* C2                                                                      *)
(***************************************************************************)
\* The entries of array fields whose elements are of a declared Type, and
\* whose value is an array.
ComplexArrayEntries ==
    {i \in DeclaredEntries :
        /\ CallSummary[i].field.fieldType.name = "array"
        /\ CallSummary[i].field.typeOptions.elementType.k = "elementType"
        /\ CallSummary[i].field.typeOptions.elementType.mode = "complex"
        /\ CallSummary[i].field.typeOptions.elementType.type \in DOMAIN types
        /\ IsArray(CallHeap, CallSummary[i].value)}

ElementsOf(i) == CallHeap[CallSummary[i].value.a].elems

\* Element n of the array of entry i, validated against its Type.
ElementResult(i, n) ==
    ModelValidate(CallHeap, types, ElementsOf(i)[n],
                  Str(CallSummary[i].field.typeOptions.elementType.type))

\* An error of element n of array field name, as the parent reports it.
Lifted(name, n, e) ==
    [field |-> name \o "[" \o ToString(n - 1) \o "]." \o e.field,
     message |-> e.message]

\* The errors of r, the result of element n of entry i, are in the result.
LiftedInto(i, n, r) ==
    (~r.threw /\ Len(r.value.errors) > 0) =>
        /\ ~ret.threw
        /\ ret.value.entity = Null
        /\ \A e \in Range(r.value.errors) :
               Lifted(CallSummary[i].name, n, e) \in Range(ret.value.errors)

\* C2: every element of an array field with elementType {mode: "complex",
\* type: T} is validated against T, and each error of element i is in the
\* errors of the parent under the path arrayField[i].nestedField; the parent
\* then has no entity.
C2_NestedErrorsAreLifted ==
    ReachedFields =>
        \A i \in ComplexArrayEntries :
            \A n \in 1..Len(ElementsOf(i)) : LiftedInto(i, n, ElementResult(i, n))

(***************************************************************************)
(* C3                                                                      *)
(***************************************************************************)
\* The options of the field of the latest Field.coerce or Field.validate.
CallField == types[call.type].fields[call.field]

\* What Field.coerce owes for an absent value, given the default.
DefaultOwed(default) ==
    IF default.k = "function" THEN default.returns ELSE Deep(heap, default)

\* C3: Field.coerce of an absent value yields the default of the field (the
\* value a callable default returns, a default that is not callable as it
\* is) or stays absent when the field has no default; a present value is
\* coerced as the field type coerces it, whatever the default.
C3_AbsentValueTakesDefault ==
    (call.op = "Field.coerce") =>
        IF call.val = Undef
        THEN /\ ~ret.threw
             /\ Deep(heap, ret.value) = DefaultOwed(CallField.typeOptions.defaultValue)
        ELSE ret = Outcome(FieldTypeCoerce(CallHeapOf(call.val), CallField.fieldType,
                                           ValAt(call.val, "in"), "out"))

(***************************************************************************)
(* C4                                                                      *)
(***************************************************************************)
\* C4: when the input holds null for a field of a built-in field type,
\* validate reports no error for the field if its allowNull is true, and at
\* least one error if not, whatever its other options.
C4_NullAgainstAllowNull ==
    ReachedFields =>
        \A i \in DeclaredEntries :
            (/\ CallSummary[i].value = Null
             /\ CallSummary[i].field.fieldType.name
                    \in {"string", "int", "datetime", "array"}) =>
                /\ ~ret.threw
                /\ IF CallSummary[i].field.typeOptions.allowNull = Bool(TRUE)
                   THEN MessagesOf(ret.value.errors, CallSummary[i].name) = <<>>
                   ELSE Len(MessagesOf(ret.value.errors, CallSummary[i].name)) >= 1

(***************************************************************************)
(* C5                                                                      *)
(***************************************************************************)
\* C5: validate leaves its input as it was, a write to the entity or to an
\* object nested in it leaves the input as it was, and a write to the input
\* leaves the entity as it was.
C5_EntitySharesNothing ==
    [][/\ (call.op = "none" /\ call'.op = "validate" /\ IsTree(call'.data))
              => Deep(heap', Ref("in")) = call'.data
       /\ (mutated = "none" /\ mutated' = "entity" /\ IsTree(call.data))
              => Deep(heap', Ref("in")) = Deep(heap, Ref("in"))
       /\ (mutated = "none" /\ mutated' = "input")
              => Deep(heap', ret.value.entity) = Deep(heap, ret.value.entity)]_vars

(***************************************************************************)
(* C6                                                                      *)
(***************************************************************************)
\* C6: validate with a type name that Model.type has not declared throws
\* "The type '...' does not exist", whatever the data.
C6_UnknownTypeIsRefused ==
    (/\ call.op = "validate"
     /\ JsToString(EmptyHeap, call.typeName) \notin DOMAIN types) =>
        /\ ret.threw
        /\ ret.value = ModelMeError("The type '" \o JsToString(EmptyHeap, call.typeName)
                                    \o "' does not exist")

(***************************************************************************)
(* C8                                                                      *)
(***************************************************************************)
\* The registry after is the registry before with one more entry, at key.
AddsOnly(before, after, key) ==
    /\ DOMAIN after = DOMAIN before \cup {key}
    /\ \A name \in DOMAIN before : after[name] = before[name]

\* C8: addFieldType, Model.type and Type.field fail and leave the registries
\* as they were when the name is already registered in its scope, and
\* succeed, adding the one entry, when the name (a non-empty string, of a
\* field type that exists) is not yet registered.
C8_NamesAreUnique ==
    [][/\ (call.op = "none" /\ call'.op = "addFieldType") =>
              IF call'.fieldType.name \in DOMAIN fieldTypes
              THEN ret'.threw /\ fieldTypes' = fieldTypes /\ types' = types
              ELSE /\ ~ret'.threw
                   /\ AddsOnly(fieldTypes, fieldTypes', call'.fieldType.name)
                   /\ types' = types
       /\ (call.op = "none" /\ call'.op = "type" /\ TypeOf(call'.name) = "string"
             /\ call'.name # Str("")) =>
              IF call'.name.s \in DOMAIN types
              THEN ret'.threw /\ fieldTypes' = fieldTypes /\ types' = types
              ELSE /\ ~ret'.threw
                   /\ AddsOnly(types, types', call'.name.s)
                   /\ fieldTypes' = fieldTypes
       /\ (call.op = "none" /\ call'.op = "field"
             /\ call'.typeName \in DOMAIN fieldTypes) =>
              IF call'.fieldName \in DOMAIN types[call'.type].fields
              THEN ret'.threw /\ fieldTypes' = fieldTypes /\ types' = types
              ELSE /\ ~ret'.threw
                   /\ AddsOnly(types[call'.type].fields,
                               types'[call'.type].fields, call'.fieldName)
                   /\ fieldTypes' = fieldTypes]_vars

(***************************************************************************)
(* C9                                                                      *)
(***************************************************************************)
\* What rule n of the field of the latest call makes of the value.
RuleResult(n) ==
    ApplyRule(CallHeapOf(call.val), CallField.fieldType.rules[n], ValAt(call.val, "in"),
              CallField.typeOptions)

\* The messages among the results of the rules, in the order of the rules.
RuleMessages ==
    LET results == [n \in 1..Len(CallField.fieldType.rules) |-> RuleResult(n).value]
    IN  SelectSeq(results, LAMBDA m : m.k = "string")

\* C9: Field.validate runs every rule of the field type, in order, and
\* returns all their messages; no rule fails, and the length and bound
\* rules have no message, when the value is null or absent; so validate
\* reports "must not be null" and "must be defined" whenever they apply.
C9_AllRulesAreRun ==
    /\ (call.op = "Field.validate") =>
           /\ \A n \in 1..Len(CallField.fieldType.rules) : ~RuleResult(n).threw
           /\ ~ret.threw
           /\ ret.value = RuleMessages
    /\ ReachedFields =>
           \A i \in DeclaredEntries :
               /\ (/\ ~Coerced(i).threw
                   /\ Coerced(i).value = Null
                   /\ ~Truthy(CallSummary[i].field.typeOptions.allowNull)) =>
                      /\ ~ret.threw
                      /\ Str("must not be null")
                             \in Range(MessagesOf(ret.value.errors, CallSummary[i].name))
               /\ (/\ ~Coerced(i).threw
                   /\ Coerced(i).value = Undef
                   /\ ~Truthy(CallSummary[i].field.typeOptions.allowUndefined)) =>
                      /\ ~ret.threw
                      /\ Str("must be defined")
                             \in Range(MessagesOf(ret.value.errors, CallSummary[i].name))

(***************************************************************************)
(* C10                                                                     *)
(***************************************************************************)
\* C10: Field.validate of a number on an int field reports "value must be
\* at least m" exactly when the number is below the min m of the field, and
\* "value must not be greater than M" exactly when it is above its max M.
C10_BoundsAreEnforced ==
    (/\ call.op = "Field.validate"
     /\ CallField.fieldType.name = "int"
     /\ call.val.k = "number") =>
        /\ ~ret.threw
        /\ (CallField.typeOptions.min.k = "number") =>
               ((Str("value must be at least "
                     \o NumToString(CallField.typeOptions.min)) \in Range(ret.value))
                <=> NumLess(call.val, CallField.typeOptions.min))
        /\ (CallField.typeOptions.max.k = "number") =>
               ((Str("value must not be greater than "
                     \o NumToString(CallField.typeOptions.max)) \in Range(ret.value))
                <=> NumLess(CallField.typeOptions.max, call.val))
====
